---- MODULE Spec2Model ----
(***************************************************************************)
(* A model of pygit (src/main.py): the object model, the object store, the *)
(* index, the tree builder, the ref manager, commit and checkout, together *)
(* with the working directory they read and write.                         *)
(*                                                                         *)
(* Abstractions.  SHA-1 is taken to be injective: a digest is modelled by  *)
(* the record [sha1 |-> <<header, content>>] of what was hashed.  zlib    *)
(* is lossless and is left out of serialize/deserialize.  A file content   *)
(* is a sequence of bytes; one encoded tree entry "<mode> <name>\0<hash>"  *)
(* is one element <<mode, name, hash>> of a tree's content; one text line  *)
(* of a commit is one tuple of a commit's content.  A repository-relative  *)
(* path "d/a" is the sequence <<"d", "a">> of its components.              *)
(*                                                                         *)
(* Three specifications.  Spec runs the commands on one repository.        *)
(* PureSpec applies a function to an argument drawn in its initial state:  *)
(* Tree to a list of entries, the tree builder to the items of an index in *)
(* the order of the index file, and serialize and deserialize to the bytes *)
(* of an object file, written out byte by byte.  LogSpec runs log one pass *)
(* of its loop at a time.                                                  *)
(***************************************************************************)
EXTENDS Integers, Sequences, FiniteSets, TLC

VARIABLES
    git_dir,    \* BOOLEAN: <root>/.pygit exists
    HEAD,       \* the branch name written in .pygit/HEAD ("" before init)
    heads,      \* .pygit/refs/heads: branch name -> commit hash (one per ref file)
    index,      \* .pygit/index: path -> blob hash
    objects,    \* .pygit/objects: hash -> serialized object
    writes,     \* number of obj_file.write_bytes calls made so far
    files,      \* working directory: path of a regular file -> its bytes
    dirs,       \* working directory: the paths that are directories
    now,        \* the last value read from the wall clock
    last,       \* the last command run and how it ended
    steps,      \* commands and edits made so far
    input,      \* the argument of a function applied on its own
    output      \* what that function gave

vars == <<git_dir, HEAD, heads, index, objects, writes, files, dirs, now, last, steps,
          input, output>>

(***************************************************************************)
(* Bounds of the model.                                                    *)
(***************************************************************************)
MaxSteps == 9       \* commands and edits in one run
MaxTime == 2        \* the clock runs from 1 to MaxTime
MaxLimit == 4       \* log -n takes 0..MaxLimit
MaxChain == 3       \* commits on the branch that log walks, when run on its own

\* The files the user works on and the bytes they write to each: "d" occurs
\* as a file and as a directory, "a" at the root and nested in d.
Edits == {<< <<"a">>, <<1>> >>, << <<"a">>, <<2>> >>,
          << <<"d">>, <<1>> >>, << <<"d", "a">>, <<2>> >>}
Paths == {e[1] : e \in Edits}
Branches == {"master", "f"}
Authors == {"A"}
Messages == {"m"}

\* Python's str order on the names and on the two modes ("100644" < "40000")
NameRank(n) == IF n = "a" THEN 1 ELSE IF n = "d" THEN 2 ELSE IF n = "x" THEN 3 ELSE 4
ModeRank(m) == IF m = "100644" THEN 1 ELSE 4

EmptyMap == [x \in {} |-> x]

IsPrefix(p, q) == Len(p) <= Len(q) /\ SubSeq(q, 1, Len(p)) = p
Parents(p) == {SubSeq(p, 1, k) : k \in 1..(Len(p) - 1)}

(***************************************************************************)
(* Object model: GitObject, Blob, Tree, Commit.                            *)
(***************************************************************************)
GitObject(obj_type, content) == [type |-> obj_type, content |-> content]

\* header = "<type> <len(content)>\0"
Header(obj) == <<obj.type, Len(obj.content)>>

hash(obj) == [sha1 |-> <<Header(obj), obj.content>>]

serialize(obj) == [header |-> Header(obj), body |-> obj.content]

\* split at the first NUL; the size in the header is read and dropped
deserialize(data) == GitObject(data.header[1], data.body)

Blob(content) == GitObject("blob", content)

\* Python's str order on hexdigests, for the digests of the one-byte blobs:
\* sha1("blob 1\0\x02") = 25cb95... < sha1("blob 1\0\x01") = 6b2aaa...
HexRank(h) == IF h.sha1[1][1] = "blob" /\ h.sha1[2] = <<2>> THEN 1 ELSE 2

\* Python's tuple order on (mode, name, hash); the hash is compared only
\* when mode and name are equal.
EntryLess(e1, e2) ==
    \/ ModeRank(e1[1]) < ModeRank(e2[1])
    \/ /\ ModeRank(e1[1]) = ModeRank(e2[1])
       /\ NameRank(e1[2]) < NameRank(e2[2])
    \/ /\ ModeRank(e1[1]) = ModeRank(e2[1])
       /\ NameRank(e1[2]) = NameRank(e2[2])
       /\ HexRank(e1[3]) < HexRank(e2[3])

\* sorted() of a list: a stable sort, each entry put after the entries of
\* the sorted part that are not greater than it
RECURSIVE insort(_, _)
insort(s, e) ==
    IF s = <<>> THEN <<e>>
    ELSE IF EntryLess(e, s[1]) THEN <<e>> \o s
    ELSE <<s[1]>> \o insort(Tail(s), e)

RECURSIVE sorted(_)
sorted(entries) ==
    IF entries = <<>> THEN <<>>
    ELSE insort(sorted(SubSeq(entries, 1, Len(entries) - 1)), entries[Len(entries)])

\* the loop over sorted(self.entries)
serialize_entries(entries) == sorted(entries)

Tree(entries) == GitObject("tree", serialize_entries(entries))

\* Tree.from_content: the loop over the encoded entries, in stored order
RECURSIVE tree_from_content(_, _)
tree_from_content(content, idx) ==
    IF idx > Len(content) THEN <<>>
    ELSE <<[mode |-> content[idx][1], name |-> content[idx][2],
            obj_hash |-> content[idx][3]]>>
         \o tree_from_content(content, idx + 1)

serialize_commit(tree_hash, parent_hash, author, commiter, message, timestamp) ==
    <<<<"tree", tree_hash>>>>
    \o [i \in 1..Len(parent_hash) |-> <<"parent", parent_hash[i]>>]
    \o <<<<"author", author, timestamp>>,
         <<"commiter", commiter, timestamp>>,
         <<"">>,
         <<"text", message>>>>

Commit(tree_hash, parent_hash, author, commiter, message, timestamp) ==
    GitObject("commit",
        serialize_commit(tree_hash, parent_hash, author, commiter, message, timestamp))

\* Commit.from_content: the header lines up to the first blank line
RECURSIVE commit_header(_, _, _)
commit_header(lines, i, acc) ==
    IF i > Len(lines) THEN acc
    ELSE LET line == lines[i] IN
         IF line[1] = "tree"
            THEN commit_header(lines, i + 1, [acc EXCEPT !.tree_hash = line[2]])
         ELSE IF line[1] = "parent"
            THEN commit_header(lines, i + 1,
                     [acc EXCEPT !.parent_hash = Append(@, line[2])])
         ELSE IF line[1] = "author"
            THEN commit_header(lines, i + 1,
                     [acc EXCEPT !.author = line[2], !.timestamp = line[3]])
         ELSE IF line[1] = "commiter"
            THEN commit_header(lines, i + 1, [acc EXCEPT !.commiter = line[2]])
         ELSE IF line[1] = ""
            THEN [acc EXCEPT !.message = SubSeq(lines, i + 1, Len(lines))]
         ELSE commit_header(lines, i + 1, acc)

commit_from_content(content) ==
    commit_header(content, 1,
        [tree_hash |-> "", parent_hash |-> <<>>, author |-> "", commiter |-> "",
         timestamp |-> 0, message |-> <<>>])

(***************************************************************************)
(* Object store.  A store value is [objects, writes].                      *)
(***************************************************************************)
\* store_object without its test that the object file exists
store_object_always_writes(st, obj) ==
    LET obj_hash == hash(obj) IN
    [objects |-> (obj_hash :> serialize(obj)) @@ st.objects,
     writes |-> st.writes + 1,
     obj_hash |-> obj_hash]

\* store_object returning the hash without writing the object file
store_object_never_writes(st, obj) ==
    [objects |-> st.objects, writes |-> st.writes, obj_hash |-> hash(obj)]

\* store_object whose write_bytes stops after the header
store_object_cut_short(st, obj) ==
    LET obj_hash == hash(obj) IN
    IF obj_hash \notin DOMAIN st.objects
        THEN [objects |-> (obj_hash :> [header |-> Header(obj), body |-> <<>>]) @@ st.objects,
              writes |-> st.writes + 1,
              obj_hash |-> obj_hash]
        ELSE [objects |-> st.objects, writes |-> st.writes, obj_hash |-> obj_hash]

\* store_object on the store st: the store afterwards, and the hash returned
store_object(st, obj) ==
    LET obj_hash == hash(obj) IN
    IF obj_hash \notin DOMAIN st.objects
        THEN [objects |-> (obj_hash :> serialize(obj)) @@ st.objects,
              writes |-> st.writes + 1,
              obj_hash |-> obj_hash]
        ELSE [objects |-> st.objects, writes |-> st.writes, obj_hash |-> obj_hash]

\* load_object of a stored object; its callers test obj_hash \in DOMAIN objs
\* where the code can raise FileNotFoundError
load_object(objs, obj_hash) == deserialize(objs[obj_hash])

Store == [objects |-> objects, writes |-> writes]

(***************************************************************************)
(* Tree builder.  A dict is the sequence of its <<key, value>> items in    *)
(* insertion order; a value is a blob hash (a str) or Dict(items).         *)
(***************************************************************************)
IsHash(x) == DOMAIN x = {"sha1"}
Dict(its) == [items |-> its]
NoHash == [sha1 |-> <<<<"none", 0>>, <<>>>>]

dict_has(d, k) == \E i \in 1..Len(d) : d[i][1] = k
dict_get(d, k) == d[CHOOSE i \in 1..Len(d) : d[i][1] = k][2]
\* d[k] = v: a present key keeps its place, a new key goes last
dict_set(d, k, v) ==
    IF dict_has(d, k)
        THEN [i \in 1..Len(d) |-> IF d[i][1] = k THEN <<k, v>> ELSE d[i]]
        ELSE Append(d, <<k, v>>)

\* index.items() of an index kept as a mapping, in one of its orders
RECURSIVE items(_)
items(idx) ==
    IF DOMAIN idx = {} THEN <<>>
    ELSE LET p == CHOOSE q \in DOMAIN idx : TRUE
         IN  <<<<p, idx[p]>>>> \o items([q \in DOMAIN idx \ {p} |-> idx[q]])

\* current[parts[-1]] = blob_hash, reached through current[part] for the
\* directory components before it, made when missing.  raised: current[part]
\* is a str, and the item assignment (or the subscript) on it is a TypeError.
RECURSIVE insert_path(_, _, _)
insert_path(current, parts, blob_hash) ==
    IF Len(parts) = 1
        THEN [raised |-> FALSE, items |-> dict_set(current, parts[1], blob_hash)]
        ELSE LET part == parts[1]
                 inner == IF dict_has(current, part) THEN dict_get(current, part)
                          ELSE Dict(<<>>)
             IN  IF IsHash(inner) THEN [raised |-> TRUE, items |-> current]
                 ELSE LET r == insert_path(inner.items, Tail(parts), blob_hash)
                      IN  IF r.raised THEN [raised |-> TRUE, items |-> current]
                          ELSE [raised |-> FALSE,
                                items |-> dict_set(current, part, Dict(r.items))]

\* The loop over index.items(): files takes the root-level paths, dirs the
\* others; acc = [raised, files, dirs].
RECURSIVE insert_all(_, _, _)
insert_all(acc, index_items, i) ==
    IF acc.raised \/ i > Len(index_items) THEN acc
    ELSE LET parts == index_items[i][1]
             blob_hash == index_items[i][2]
         IN  IF Len(parts) = 1
                 THEN insert_all([acc EXCEPT !.files = dict_set(@, parts[1], blob_hash)],
                                 index_items, i + 1)
                 ELSE LET r == insert_path(acc.dirs, parts, blob_hash)
                      IN  insert_all([acc EXCEPT !.raised = r.raised, !.dirs = r.items],
                                     index_items, i + 1)

\* create_tree_recursive: the hash of the tree built from entries_dict, its
\* entries added in the order of the dict, and the trees stored on the way.
RECURSIVE create_tree_recursive(_)
RECURSIVE add_entries(_, _, _)
create_tree_recursive(entries_dict) ==
    LET r == add_entries(entries_dict, 1, [entries |-> <<>>, stored |-> {}])
        tree == Tree(r.entries)
    IN  [hash |-> hash(tree), stored |-> r.stored \cup {tree}]

add_entries(entries_dict, i, acc) ==
    IF i > Len(entries_dict) THEN acc
    ELSE LET name == entries_dict[i][1]
             blob_hash == entries_dict[i][2]
         IN  IF IsHash(blob_hash)
                 THEN add_entries(entries_dict, i + 1,
                          [acc EXCEPT !.entries = Append(@, <<"100644", name, blob_hash>>)])
                 ELSE LET sub == create_tree_recursive(blob_hash.items)
                      IN  add_entries(entries_dict, i + 1,
                              [entries |-> Append(acc.entries, <<"40000", name, sub.hash>>),
                               stored |-> acc.stored \cup sub.stored])

\* root_entries = {**files}, then root_entries[dir_name] = dir_content
RECURSIVE root_update(_, _, _)
root_update(root_entries, dirs_dict, i) ==
    IF i > Len(dirs_dict) THEN root_entries
    ELSE root_update(dict_set(root_entries, dirs_dict[i][1], dirs_dict[i][2]),
                     dirs_dict, i + 1)

\* create_tree_from_index on the items of the loaded index, in their order:
\* [raised, hash, stored].  An empty index stores the empty tree and raises
\* what store_object returned, which is no exception: a TypeError.
create_tree_from_index(index_items) ==
    IF index_items = <<>>
        THEN [raised |-> TRUE, hash |-> NoHash, stored |-> {Tree(<<>>)}]
    ELSE LET acc == insert_all([raised |-> FALSE, files |-> <<>>, dirs |-> <<>>],
                               index_items, 1)
             built == create_tree_recursive(root_update(acc.files, acc.dirs, 1))
         IN  IF acc.raised
                 THEN [raised |-> TRUE, hash |-> NoHash, stored |-> {}]
                 ELSE [raised |-> FALSE, hash |-> built.hash, stored |-> built.stored]

\* one store_object call for each object of objs
RECURSIVE store_set(_, _)
store_set(st, objs) ==
    IF objs = {} THEN st
    ELSE LET o == CHOOSE x \in objs : TRUE
         IN  store_set(store_object(st, o), objs \ {o})

(***************************************************************************)
(* Walking stored trees.                                                   *)
(***************************************************************************)
tree_entries(objs, tree_hash) ==
    tree_from_content(load_object(objs, tree_hash).content, 1)

commit_data(objs, commit_hash) ==
    commit_from_content(load_object(objs, commit_hash).content)

\* get_files_from_tree: an unreadable tree gives no files (the except branch)
RECURSIVE get_files_from_tree(_, _, _)
get_files_from_tree(objs, tree_hash, prefix) ==
    IF tree_hash \notin DOMAIN objs THEN {}
    ELSE LET entries == tree_entries(objs, tree_hash)
         IN  UNION {IF entries[i].mode = "40000"
                        THEN get_files_from_tree(objs, entries[i].obj_hash,
                                                 prefix \o <<entries[i].name>>)
                        ELSE {prefix \o <<entries[i].name>>}
                    : i \in 1..Len(entries)}

\* file_path = self.path / name
file_path(path, name) == <<name>>

\* restore_files_from_tree on the working directory w = [files, dirs, err];
\* err is set by the first call that raises, and nothing is done after it.
RECURSIVE restore_files_from_tree(_, _, _, _)
RECURSIVE restore_entries(_, _, _, _, _)
restore_files_from_tree(objs, tree_hash, path, w) ==
    IF w.err THEN w
    ELSE IF tree_hash \notin DOMAIN objs THEN [w EXCEPT !.err = TRUE]
    ELSE restore_entries(objs, tree_entries(objs, tree_hash), 1, path, w)

restore_entries(objs, entries, i, path, w) ==
    IF w.err \/ i > Len(entries) THEN w
    ELSE LET e == entries[i]
             fp == file_path(path, e.name)
             parent_ok == Parents(fp) \subseteq w.dirs
         IN  IF e.mode = "40000"
                 THEN IF fp \in DOMAIN w.files \/ ~parent_ok
                          THEN [w EXCEPT !.err = TRUE]    \* mkdir raises
                          ELSE restore_entries(objs, entries, i + 1, path,
                                   restore_files_from_tree(objs, e.obj_hash, fp,
                                       [w EXCEPT !.dirs = @ \cup {fp}]))
                 ELSE IF e.obj_hash \notin DOMAIN objs \/ fp \in w.dirs \/ ~parent_ok
                          THEN [w EXCEPT !.err = TRUE]    \* load or write raises
                          ELSE restore_entries(objs, entries, i + 1, path,
                                   [w EXCEPT !.files =
                                       (fp :> load_object(objs, e.obj_hash).content) @@ @])

\* the loop of restore_working_directory that unlinks the regular files
unlink_all(fs, files_to_remove) ==
    [q \in DOMAIN fs \ files_to_remove |-> fs[q]]

(***************************************************************************)
(* Commands.  Every command records itself in last.                        *)
(***************************************************************************)
Done(op, arg, flag, result) == [op |-> op, arg |-> arg, flag |-> flag, result |-> result]

\* one more command or edit, while the run may go on
Step == steps < MaxSteps /\ steps' = steps + 1 /\ UNCHANGED <<input, output>>

NoInput == [kind |-> "none", v |-> <<>>]
NoOutput == [done |-> FALSE, v |-> <<>>]

\* the state before pygit init has run in the directory
Fresh ==
    /\ git_dir = FALSE
    /\ HEAD = ""
    /\ heads = EmptyMap
    /\ index = EmptyMap
    /\ objects = EmptyMap
    /\ writes = 0
    /\ files = EmptyMap
    /\ dirs = {}
    /\ now = 1
    /\ last = Done("none", "", FALSE, "ok")
    /\ steps = 0

Init == Fresh /\ input = NoInput /\ output = NoOutput

\* Repository.init
init ==
    /\ Step
    /\ IF git_dir
          THEN /\ last' = Done("init", "", FALSE, "exists")
               /\ UNCHANGED <<git_dir, HEAD, index>>
          ELSE /\ git_dir' = TRUE
               /\ HEAD' = "master"
               /\ index' = EmptyMap
               /\ last' = Done("init", "", FALSE, "ok")
    /\ UNCHANGED <<heads, objects, writes, files, dirs, now>>

\* The user edits the working directory: makes p a regular file holding c,
\* with its parent directories, in place of whatever was in the way.
UserWrite(p, c) ==
    /\ Step
    /\ files' = (p :> c) @@ [q \in {r \in DOMAIN files : ~IsPrefix(r, p) /\ ~IsPrefix(p, r)}
                                |-> files[q]]
    /\ dirs' = {q \in dirs : ~IsPrefix(p, q)} \cup Parents(p)
    /\ last' = Done("edit", "", FALSE, "ok")
    /\ UNCHANGED <<git_dir, HEAD, heads, index, objects, writes, now>>

\* Repository.add_file
add_file(path) ==
    /\ path \in DOMAIN files
    /\ LET blob == Blob(files[path])
           st == store_object(Store, blob)
           blob_hash == st.obj_hash
       IN  /\ objects' = st.objects
           /\ writes' = st.writes
           /\ index' = (path :> blob_hash) @@ index
    /\ last' = Done("add", "", FALSE, "ok")
    /\ UNCHANGED <<git_dir, HEAD, heads, files, dirs, now>>

\* Repository.add_directory: every regular file below path (rglob)
add_directory(path) ==
    /\ path \in dirs \cup {<<>>}
    /\ LET found == {q \in DOMAIN files : IsPrefix(path, q)}
           st == store_set(Store, {Blob(files[q]) : q \in found})
       IN  /\ objects' = st.objects
           /\ writes' = st.writes
           /\ index' = [q \in found |-> store_object(st, Blob(files[q])).obj_hash] @@ index
    /\ last' = Done("add", "", FALSE, "ok")
    /\ UNCHANGED <<git_dir, HEAD, heads, files, dirs, now>>

\* Repository.add_path, as main runs it for one path
add_path(path) ==
    /\ Step
    /\ git_dir
    /\ IF path \notin DOMAIN files \cup dirs \cup {<<>>}
          THEN /\ last' = Done("add", "", FALSE, "error")      \* FileExistsError
               /\ UNCHANGED <<git_dir, HEAD, heads, index, objects, writes,
                              files, dirs, now>>
          ELSE IF path \in DOMAIN files THEN add_file(path)
          ELSE add_directory(path)

\* set_branch_commit writing the one ref file in an emptied refs/heads
set_branch_commit_alone(hs, current_branch, commit_hash) == (current_branch :> commit_hash)

\* set_branch_commit: the ref file of current_branch holds commit_hash
set_branch_commit(hs, current_branch, commit_hash) == (current_branch :> commit_hash) @@ hs

\* parent_hash = [parent_commit] if parent_commit else []
parent_list_none(hs, current_branch) == <<>>

\* parent_hash naming a commit that was never stored
parent_list_dangling(hs, current_branch) == <<NoHash>>

parent_list(hs, current_branch) ==
    IF current_branch \in DOMAIN hs THEN <<hs[current_branch]>> ELSE <<>>

\* parent_commit_data.tree_hash == tree_hash
same_tree_never(parent_tree_hash, tree_hash) == FALSE

same_tree(parent_tree_hash, tree_hash) == parent_tree_hash = tree_hash

\* Repository.commit; t is the clock value read by Commit()
commit(message, author, t) ==
    /\ Step
    /\ git_dir
    /\ LET built == create_tree_from_index(items(index))
           tree_hash == built.hash
           st1 == store_set(Store, built.stored)   \* create_tree_from_index
           current_branch == HEAD
           has_parent == current_branch \in DOMAIN heads
           parent_hash == parent_list(heads, current_branch)
       IN  IF built.raised
              THEN /\ objects' = st1.objects
                   /\ writes' = st1.writes
                   /\ last' = Done("commit", "", FALSE, "error")
                   /\ UNCHANGED <<git_dir, HEAD, heads, index, files, dirs, now>>
           ELSE IF has_parent
                      /\ same_tree(commit_data(st1.objects, heads[current_branch]).tree_hash,
                                   tree_hash)
                      THEN /\ objects' = st1.objects
                           /\ writes' = st1.writes
                           /\ last' = Done("commit", "", FALSE, "clean")
                           /\ UNCHANGED <<git_dir, HEAD, heads, index, files, dirs, now>>
                      ELSE LET c == Commit(tree_hash, parent_hash, author, author, message, t)
                               st2 == store_object(st1, c)
                           IN  /\ t >= now
                               /\ now' = t
                               /\ objects' = st2.objects
                               /\ writes' = st2.writes
                               /\ heads' = set_branch_commit(heads, current_branch, hash(c))
                               /\ index' = EmptyMap
                               /\ last' = Done("commit", "", FALSE, "ok")
                               /\ UNCHANGED <<git_dir, HEAD, files, dirs>>

\* if create_branch: ... else: "Branch does not exist"
may_create_always(create_branch) == TRUE

may_create(create_branch) == create_branch

\* checkout's two early returns, HEAD written before them
checkout_refused_head_written(branch, create_branch, result) ==
    /\ HEAD' = branch
    /\ last' = Done("checkout", branch, create_branch, result)
    /\ UNCHANGED <<git_dir, heads, index, objects, writes, files, dirs, now>>

\* checkout's two early returns: a report, and nothing written
checkout_refused(branch, create_branch, result) ==
    /\ last' = Done("checkout", branch, create_branch, result)
    /\ UNCHANGED <<git_dir, HEAD, heads, index, objects, writes, files, dirs, now>>

\* Repository.checkout
checkout(branch, create_branch) ==
    /\ Step
    /\ git_dir
    /\ LET previous_branch == HEAD
           has_previous == previous_branch \in DOMAIN heads
           files_to_remove ==
               IF has_previous
                   THEN get_files_from_tree(objects,
                            commit_data(objects, heads[previous_branch]).tree_hash, <<>>)
                   ELSE {}
       IN  IF branch \notin DOMAIN heads /\ ~may_create(create_branch)
              THEN checkout_refused(branch, create_branch, "BranchNotFound")
           ELSE IF branch \notin DOMAIN heads /\ ~has_previous
              THEN checkout_refused(branch, create_branch, "NoCommitsYet")
           ELSE LET heads1 == IF branch \in DOMAIN heads THEN heads
                              ELSE set_branch_commit(heads, branch, heads[previous_branch])
                    \* restore_working_directory
                    target_tree_hash == commit_data(objects, heads1[branch]).tree_hash
                    w == restore_files_from_tree(objects, target_tree_hash, <<>>,
                             [files |-> unlink_all(files, files_to_remove),
                              dirs |-> dirs, err |-> FALSE])
                IN  /\ heads' = heads1
                    /\ HEAD' = branch
                    /\ files' = w.files
                    /\ dirs' = w.dirs
                    /\ index' = IF w.err THEN index ELSE EmptyMap
                    /\ last' = Done("checkout", branch, create_branch,
                                    IF w.err THEN "error" ELSE "ok")
                    /\ UNCHANGED <<git_dir, objects, writes, now>>

\* branch_file.unlink() taking every ref file with it
unlink_every_ref(hs, branch_name) == EmptyMap

\* branch_file.unlink()
unlink_ref(hs, branch_name) == [b \in DOMAIN hs \ {branch_name} |-> hs[b]]

\* Repository.branch with a name: delete, or create at the current commit
branch(branch_name, delete) ==
    /\ Step
    /\ git_dir
    /\ IF delete
          THEN IF branch_name \notin DOMAIN heads
                  THEN /\ last' = Done("branch", branch_name, delete, "BranchNotFound")
                       /\ UNCHANGED heads
                  ELSE /\ heads' = unlink_ref(heads, branch_name)
                       /\ last' = Done("branch", branch_name, delete, "deleted")
          ELSE IF HEAD \notin DOMAIN heads
                  THEN \* set_branch_commit(name, None) raises TypeError
                       /\ last' = Done("branch", branch_name, delete, "error")
                       /\ UNCHANGED heads
                  ELSE /\ heads' = set_branch_commit(heads, branch_name, heads[HEAD])
                       /\ last' = Done("branch", branch_name, delete, "created")
    /\ UNCHANGED <<git_dir, HEAD, index, objects, writes, files, dirs, now>>

\* Repository.branch without a name: with -d a request for a name, without
\* it the sorted names of the ref files are printed; nothing is written
branch_list(delete) ==
    /\ Step
    /\ git_dir
    /\ last' = Done("branches", "", delete, IF delete THEN "NoName" ELSE "listed")
    /\ UNCHANGED <<git_dir, HEAD, heads, index, objects, writes, files, dirs, now>>

\* log's loop variables: commit_hash is <<>> for None, <<h>> for a hash
log_vars(commit_hash, count, printed) ==
    [commit_hash |-> commit_hash, count |-> count, printed |-> printed]

\* get_branch_commit
get_branch_commit(hs, current_branch) ==
    IF current_branch \in DOMAIN hs THEN <<hs[current_branch]>> ELSE <<>>

\* while commit_hash and count < number, without its test of count
log_continues_unbounded(l, number) == l.commit_hash # <<>>

\* while commit_hash and count < number
log_continues(l, number) == l.commit_hash # <<>> /\ l.count < number

\* one pass of the loop body: print the commit, follow its first parent
log_iteration(objs, l) ==
    LET data == commit_data(objs, l.commit_hash[1])
    IN  log_vars(IF data.parent_hash # <<>> THEN <<data.parent_hash[1]>> ELSE <<>>,
                 l.count + 1,
                 Append(l.printed, l.commit_hash[1]))

RECURSIVE log_loop(_, _, _)
log_loop(objs, l, number) ==
    IF log_continues(l, number) THEN log_loop(objs, log_iteration(objs, l), number)
    ELSE l

\* Repository.log: it prints, and writes nothing
log(number) ==
    /\ Step
    /\ git_dir
    /\ LET commit_hash == get_branch_commit(heads, HEAD)
           l == log_loop(objects, log_vars(commit_hash, 0, <<>>), number)
       IN  last' = Done("log", "", FALSE,
                        IF commit_hash = <<>> THEN "NoCommitsYet" ELSE "ok")
    /\ UNCHANGED <<git_dir, HEAD, heads, index, objects, writes, files, dirs, now>>

Next ==
    \/ init
    \/ \E e \in Edits : UserWrite(e[1], e[2])
    \/ \E p \in Paths \cup {<<>>} : add_path(p)
    \/ \E m \in Messages, a \in Authors, t \in 1..MaxTime : commit(m, a, t)
    \/ \E b \in Branches, create \in BOOLEAN : checkout(b, create)
    \/ \E b \in Branches, delete \in BOOLEAN : branch(b, delete)
    \/ \E delete \in BOOLEAN : branch_list(delete)
    \/ \E number \in 0..MaxLimit : log(number)

Spec == Init /\ [][Next]_vars

(***************************************************************************)
(* The bytes of an object file.  A bytes value is the sequence of its byte *)
(* values, a str the sequence of its code points; zlib is left out.        *)
(***************************************************************************)
NUL == 0            \* b"\0"
SP == 32            \* b" "
MinusOne == 0 - 1   \* what bytes.find returns when there is no match

Max(a, b) == IF a >= b THEN a ELSE b
Least(a, b) == IF a <= b THEN a ELSE b

\* A str is the sequence of its characters; "NUL" stands for "\0".
blob_str == <<"b", "l", "o", "b">>
Digits == <<"0", "1", "2", "3", "4", "5", "6", "7", "8", "9">>
Chars == {"NUL", " ", "b", "l", "o"} \cup {Digits[i] : i \in 1..10}

\* str(n): the decimal digits of n
RECURSIVE decimal(_)
decimal(n) ==
    IF n < 10 THEN <<Digits[n + 1]>> ELSE decimal(n \div 10) \o <<Digits[(n % 10) + 1]>>

\* the UTF-8 byte of an ASCII character
Ord(c) ==
    IF c = "NUL" THEN NUL
    ELSE IF c = " " THEN SP
    ELSE IF c = "b" THEN 98
    ELSE IF c = "l" THEN 108
    ELSE IF c = "o" THEN 111
    ELSE 47 + (CHOOSE i \in 1..10 : Digits[i] = c)
Chr(byte) == CHOOSE c \in Chars : Ord(c) = byte

\* str.encode() and bytes.decode()
encode(str) == [i \in 1..Len(str) |-> Ord(str[i])]
decode(data) == [i \in 1..Len(data) |-> Chr(data[i])]

\* f"{self.type} {len(self.content)}\0".encode()
header_bytes(obj) == encode(obj.type \o <<" ">> \o decimal(Len(obj.content)) \o <<"NUL">>)

\* GitObject.hash: the digest stands for the bytes that were hashed
hash_bytes(obj) == [sha1 |-> header_bytes(obj) \o obj.content]

\* GitObject.serialize
serialize_bytes(obj) == header_bytes(obj) \o obj.content

\* the index of the last match, as bytes.rfind gives it
rfind(data, byte) ==
    LET at == {i \in 1..Len(data) : data[i] = byte}
    IN  IF at = {} THEN MinusOne ELSE (CHOOSE i \in at : \A k \in at : k <= i) - 1

\* bytes.find: the index, from 0, of the first match, or -1
find(data, byte) ==
    LET at == {i \in 1..Len(data) : data[i] = byte}
    IN  IF at = {} THEN MinusOne ELSE (CHOOSE i \in at : \A k \in at : i <= k) - 1

\* data[:stop] and data[start:], a negative index counted from the end
slice_to(data, stop) ==
    SubSeq(data, 1, IF stop < 0 THEN Max(Len(data) + stop, 0) ELSE Least(stop, Len(data)))
slice_from(data, start) ==
    SubSeq(data, 1 + (IF start < 0 THEN Max(Len(data) + start, 0) ELSE Least(start, Len(data))),
           Len(data))

\* bytes.split(sep): the parts between the occurrences of the byte sep
RECURSIVE split(_, _)
split(data, sep) ==
    LET i == find(data, sep)
    IN  IF i = MinusOne THEN <<data>>
        ELSE <<slice_to(data, i)>> \o split(slice_from(data, i + 1), sep)

\* bytes.decode() raises on 0xFF and on the other bytes that are no UTF-8;
\* of the bytes from 128 up the model draws 0xFF only
decodable(data) == \A i \in 1..Len(data) : data[i] < 128

\* GitObject.deserialize of the decompressed bytes: the object, or the error
\* raised (the size in the header is read and dropped)
deserialize_bytes(decompressed) ==
    LET null_idx == find(decompressed, NUL)
        header == slice_to(decompressed, null_idx)
        content == slice_from(decompressed, null_idx + 1)
        parts == split(header, SP)
    IN  IF Len(parts) # 2
            THEN [error |-> "ValueError", type |-> <<>>, content |-> <<>>]
        ELSE IF ~decodable(parts[1])
            THEN [error |-> "UnicodeDecodeError", type |-> <<>>, content |-> <<>>]
        ELSE [error |-> "none", type |-> decode(parts[1]), content |-> content]

(***************************************************************************)
(* The functions on their own: an argument is drawn, the function applied. *)
(***************************************************************************)
MaxEntries == 3     \* entries of a Tree made from a list
MaxItems == 3       \* items of an index given to the tree builder
MaxContent == 3     \* bytes of a blob that is serialized and read back
MaxBytes == 4       \* bytes of an object file given to deserialize

SeqsUpTo(S, n) == UNION {[1..k -> S] : k \in 0..n}
Hashes == {hash(Blob(<<1>>)), hash(Blob(<<2>>))}
\* lists of (mode, name, hash), with repeats and with equal (mode, name)
EntryLists ==
    SeqsUpTo({<<"100644", "a", hash(Blob(<<1>>))>>, <<"100644", "a", hash(Blob(<<2>>))>>,
              <<"40000", "a", hash(Blob(<<1>>))>>, <<"100644", "d", hash(Blob(<<1>>))>>},
             MaxEntries)
\* the items of an index in the order of the file: "d/x" is a file for one
\* path and a directory for another
ItemLists ==
    {s \in SeqsUpTo({<<"a">>, <<"d", "x">>, <<"d", "x", "y">>} \X Hashes, MaxItems) :
        \A i, j \in 1..Len(s) : i # j => s[i][1] # s[j][1]}

\* blob contents, with NUL and space among the bytes, the empty one, and one
\* whose length has two digits
Contents == SeqsUpTo({NUL, SP, Ord("1")}, MaxContent) \cup {[i \in 1..10 |-> NUL]}
\* decompressed object files, well formed or not: NUL, space, "b", 0xFF
FileBytes == SeqsUpTo({NUL, SP, Ord("b"), 255}, MaxBytes)

\* an argument of one of the four kinds
PureInit ==
    /\ Fresh
    /\ output = NoOutput
    /\ \/ \E s \in EntryLists : input = [kind |-> "entries", v |-> s]
       \/ \E s \in ItemLists : input = [kind |-> "index", v |-> s]
       \/ \E s \in Contents : input = [kind |-> "blob", v |-> s]
       \/ \E s \in FileBytes : input = [kind |-> "bytes", v |-> s]

Apply(kind, v) ==
    /\ input.kind = kind
    /\ ~output.done
    /\ output' = [done |-> TRUE, v |-> v]
    /\ UNCHANGED <<git_dir, HEAD, heads, index, objects, writes, files, dirs, now, last,
                   steps, input>>

\* Tree(entries)
TreeOf == Apply("entries", Tree(input.v))

\* create_tree_from_index on a loaded index
BuildTree == Apply("index", create_tree_from_index(input.v))

\* GitObject.deserialize(Blob(content).serialize())
RoundTrip == Apply("blob", deserialize_bytes(serialize_bytes(GitObject(blob_str, input.v))))

\* GitObject.deserialize
Deserialize == Apply("bytes", deserialize_bytes(input.v))

PureNext ==
    \/ TreeOf
    \/ BuildTree
    \/ RoundTrip
    \/ Deserialize

PureSpec == PureInit /\ [][PureNext]_vars

(***************************************************************************)
(* log on its own, one pass of its loop at a time, in a repository where   *)
(* master has 0..MaxChain commits and f, when it has a ref, is at one of   *)
(* them.                                                                   *)
(***************************************************************************)
\* the k-th commit of master: the user alternates the bytes of the file a
chain_blob(k) == Blob(<<1 + (k % 2)>>)
chain_tree(k) == create_tree_from_index(<< <<<<"a">>, hash(chain_blob(k))>> >>)
RECURSIVE chain_commit(_)
chain_commit(k) ==
    Commit(chain_tree(k).hash, IF k = 1 THEN <<>> ELSE <<hash(chain_commit(k - 1))>>,
           "A", "A", "m", 1)
\* the store after n rounds of add and commit
chain_store(n) ==
    store_set(store_set(store_set([objects |-> EmptyMap, writes |-> 0],
                                  {chain_blob(k) : k \in 1..n}),
                        UNION {chain_tree(k).stored : k \in 1..n}),
              {chain_commit(k) : k \in 1..n})

LogInit ==
    \E n \in 0..MaxChain, j \in 0..MaxChain, number \in 0..MaxLimit :
        /\ j <= n
        /\ objects = chain_store(n).objects
        /\ writes = chain_store(n).writes
        /\ git_dir = TRUE
        /\ HEAD \in Branches
        /\ heads = [b \in {"master" : x \in 1..n} \cup {"f" : x \in 1..j} |->
                       IF b = "master" THEN hash(chain_commit(n)) ELSE hash(chain_commit(j))]
        /\ index = EmptyMap
        /\ files = [p \in {<<"a">> : x \in 1..n} |-> chain_blob(n).content]
        /\ dirs = {}
        /\ now = 1
        /\ last = Done("none", "", FALSE, "ok")
        /\ steps = 0
        /\ input = [kind |-> "log", v |-> number]
        /\ output = [done |-> FALSE, v |-> [pc |-> "start", l |-> log_vars(<<>>, 0, <<>>)]]

LogFrame ==
    UNCHANGED <<git_dir, HEAD, heads, index, objects, writes, files, dirs, now, last,
                steps, input>>

\* lines 532-536: the branch's commit, or "No commits yet" and return
log_begin ==
    /\ ~output.done /\ output.v.pc = "start"
    /\ LET commit_hash == get_branch_commit(heads, HEAD)
       IN  output' = [done |-> commit_hash = <<>>,
                      v |-> [pc |-> IF commit_hash = <<>> THEN "return" ELSE "while",
                             l |-> log_vars(commit_hash, 0, <<>>)]]
    /\ LogFrame

\* lines 539-554: the loop test holds, one pass of the body
log_pass ==
    /\ ~output.done /\ output.v.pc = "while"
    /\ log_continues(output.v.l, input.v)
    /\ output' = [output EXCEPT !.v.l = log_iteration(objects, @)]
    /\ LogFrame

\* line 539: the loop test fails, log returns
log_return ==
    /\ ~output.done /\ output.v.pc = "while"
    /\ ~log_continues(output.v.l, input.v)
    /\ output' = [done |-> TRUE, v |-> [output.v EXCEPT !.pc = "return"]]
    /\ LogFrame

LogNext ==
    \/ log_begin
    \/ log_pass
    \/ log_return

\* the interpreter goes on running the call until it returns
LogSpec == LogInit /\ [][LogNext]_vars /\ WF_vars(LogNext)

(***************************************************************************)
(* Two pygit add processes on one repository, each adding one file, their  *)
(* steps interleaved: no lock is taken on the index file.  output.v holds  *)
(* what each process holds in memory, and the order of the saves.          *)
(***************************************************************************)
Procs == {1, 2}
AddPaths == {<<"a">>, <<"d", "a">>, <<"d", "x">>}

AddInit ==
    /\ git_dir = TRUE
    /\ HEAD = "master"
    /\ heads = EmptyMap
    /\ index = EmptyMap
    /\ objects = EmptyMap
    /\ writes = 0
    /\ \E p1, p2 \in AddPaths, c1, c2 \in {<<1>>, <<2>>} :
          /\ p1 # p2
          /\ files = (p1 :> c1) @@ (p2 :> c2)
          /\ dirs = Parents(p1) \cup Parents(p2)
          /\ input = [kind |-> "add", v |-> <<p1, p2>>]
    /\ now = 1
    /\ last = Done("init", "", FALSE, "ok")
    /\ steps = 0
    /\ output = [done |-> FALSE,
                 v |-> [pc |-> [p \in Procs |-> "store"],
                        blob_hash |-> [p \in Procs |-> NoHash],
                        index |-> [p \in Procs |-> EmptyMap],
                        saved |-> <<>>]]

AddFrame == UNCHANGED <<git_dir, HEAD, heads, files, dirs, now, last, steps, input>>

\* index[path] = blob_hash dropping what was loaded
index_put_alone(loaded, path, blob_hash) == (path :> blob_hash)

\* index[path] = blob_hash on the loaded index
index_put(loaded, path, blob_hash) == (path :> blob_hash) @@ loaded

\* add_file, lines 223-231: read the file, store its blob
add_store(p) ==
    /\ output.v.pc[p] = "store"
    /\ input.v[p] \in DOMAIN files
    /\ LET st == store_object(Store, Blob(files[input.v[p]]))
       IN  /\ objects' = st.objects
           /\ writes' = st.writes
           /\ output' = [output EXCEPT !.v.pc[p] = "load", !.v.blob_hash[p] = st.obj_hash]
    /\ UNCHANGED index
    /\ AddFrame

\* add_file, lines 233-235: index = self.load_index()
add_load(p) ==
    /\ output.v.pc[p] = "load"
    /\ output' = [output EXCEPT !.v.pc[p] = "save", !.v.index[p] = index]
    /\ UNCHANGED <<index, objects, writes>>
    /\ AddFrame

\* add_file, lines 236-237: index[path] = blob_hash; self.save_index(index)
add_save(p) ==
    /\ output.v.pc[p] = "save"
    /\ index' = index_put(output.v.index[p], input.v[p], output.v.blob_hash[p])
    /\ output' = [done |-> \A q \in Procs \ {p} : output.v.pc[q] = "done",
                  v |-> [output.v EXCEPT !.pc[p] = "done", !.saved = Append(@, p)]]
    /\ UNCHANGED <<objects, writes>>
    /\ AddFrame

AddNext ==
    \E p \in Procs :
        \/ add_store(p)
        \/ add_load(p)
        \/ add_save(p)

AddSpec == AddInit /\ [][AddNext]_vars

(***************************************************************************)
(* Vocabulary of the properties.                                           *)
(***************************************************************************)
CheckedOut(l) == l.op = "checkout" /\ l.result = "ok"
Committed(l) == l.op = "commit" /\ l.result = "ok"

\* the root tree of a stored commit, and the file paths that tree tracks
TreeOfCommit(objs, commit_hash) == commit_data(objs, commit_hash).tree_hash
Tracked(objs, commit_hash) ==
    get_files_from_tree(objs, TreeOfCommit(objs, commit_hash), <<>>)

\* the pairs <<full path, blob hash>> of the blob entries reached by walking
\* a stored tree
RECURSIVE TreeBlobs(_, _, _)
TreeBlobs(objs, tree_hash, prefix) ==
    LET content == objs[tree_hash].body
    IN  UNION {IF content[i][1] = "40000"
                   THEN TreeBlobs(objs, content[i][3], prefix \o <<content[i][2]>>)
                   ELSE IF content[i][1] = "100644"
                   THEN {<<prefix \o <<content[i][2]>>, content[i][3]>>}
                   ELSE {}
               : i \in 1..Len(content)}

CommitObjects(objs) == {h \in DOMAIN objs : objs[h].header[1] = "commit"}
BuiltTree(idx) == create_tree_from_index(items(idx)).hash
OtherRefsKept ==
    \A b \in Branches \ {HEAD} :
        /\ b \in DOMAIN heads <=> b \in DOMAIN heads'
        /\ b \in DOMAIN heads => heads'[b] = heads[b]

(***************************************************************************)
(* C1: after a successful checkout to a branch whose commit is C, every    *)
(* blob entry of C's root tree, at its full relative path p, is a file of  *)
(* the working directory at exactly p, holding that blob's bytes.          *)
(***************************************************************************)
C1_CheckoutMaterializesTree ==
    CheckedOut(last) =>
        \A e \in TreeBlobs(objects, TreeOfCommit(objects, heads[HEAD]), <<>>) :
            /\ e[1] \in DOMAIN files
            /\ files[e[1]] = objects[e[2]].body

(***************************************************************************)
(* C2: a successful checkout leaves every working-directory file whose     *)
(* path is tracked neither by the commit of the branch being left nor by   *)
(* the commit of the target branch in place, with the same bytes.          *)
(***************************************************************************)
C2_CheckoutKeepsUntracked ==
    [][CheckedOut(last') =>
          \A p \in DOMAIN files :
              (/\ HEAD \in DOMAIN heads => p \notin Tracked(objects, heads[HEAD])
               /\ p \notin Tracked(objects', heads'[HEAD']))
              => (p \in DOMAIN files' /\ files'[p] = files[p])]_vars

(***************************************************************************)
(* C3: after a successful checkout from branch A to branch B, every path   *)
(* of the file-set of A's commit that is not a path of B's commit tree is  *)
(* absent from the working directory.                                      *)
(***************************************************************************)
C3_CheckoutRemovesLeftFiles ==
    [][(CheckedOut(last') /\ HEAD \in DOMAIN heads) =>
          \A p \in Tracked(objects, heads[HEAD]) \ Tracked(objects', heads'[HEAD']) :
              p \notin DOMAIN files']_vars
C5_SameTreeCommitIsNoOp ==
    [][(/\ last'.op = "commit"
        /\ HEAD \in DOMAIN heads
        /\ TreeOfCommit(objects, heads[HEAD]) = BuiltTree(index))
       => (/\ last'.result = "clean"
           /\ CommitObjects(objects') = CommitObjects(objects)
           /\ heads' = heads)]_vars

\* a commit was refused as clean, the index still holding what was staged
C5_Witness ==
    /\ last.op = "commit" /\ last.result = "clean"
    /\ index # EmptyMap
    /\ TreeOfCommit(objects, heads[HEAD]) = BuiltTree(index)

(***************************************************************************)
(* C6: commit with an empty index is a no-op that reports "nothing to      *)
(* commit": it raises no error, returns the no-op signal, creates no       *)
(* Commit object and moves no ref.                                         *)
(***************************************************************************)
C6_EmptyIndexCommitIsNoOp ==
    [][(last'.op = "commit" /\ index = EmptyMap)
       => (/\ last'.result = "clean"
           /\ CommitObjects(objects') = CommitObjects(objects)
           /\ heads' = heads)]_vars

(***************************************************************************)
(* C7: checkout of a branch that has no ref, without the create flag,      *)
(* reports BranchNotFound and leaves HEAD, the working directory, the      *)
(* index and all refs as they were.                                        *)
(***************************************************************************)
C7_CheckoutMissingBranch ==
    [][(/\ last'.op = "checkout"
        /\ ~last'.flag
        /\ last'.arg \notin DOMAIN heads)
       => (/\ last'.result = "BranchNotFound"
           /\ UNCHANGED <<HEAD, files, dirs, index, heads>>)]_vars

\* the refused checkout happened in a repository that has commits and files
C7_Witness ==
    /\ last.op = "checkout" /\ last.result = "BranchNotFound"
    /\ HEAD \in DOMAIN heads
    /\ files # EmptyMap
    /\ index # EmptyMap

(***************************************************************************)
(* C8: checkout with the create flag to a branch that has no ref, while    *)
(* the current branch has no commit, fails with NoCommitsYet and changes   *)
(* nothing: no ref is created, HEAD, the working directory and the index   *)
(* are as they were.                                                       *)
(***************************************************************************)
C8_CheckoutCreateWithoutCommit ==
    [][(/\ last'.op = "checkout"
        /\ last'.flag
        /\ last'.arg \notin DOMAIN heads
        /\ HEAD \notin DOMAIN heads)
       => (/\ last'.result = "NoCommitsYet"
           /\ UNCHANGED <<HEAD, files, dirs, index, heads>>)]_vars

\* the refused creation happened with files in the working directory and
\* staged paths in the index
C8_Witness ==
    /\ last.op = "checkout" /\ last.result = "NoCommitsYet"
    /\ last.flag
    /\ files # EmptyMap
    /\ index # EmptyMap

(***************************************************************************)
(* C9: after a successful commit made from index I, walking the new        *)
(* commit's root tree yields exactly the paths of I: every path p of I is  *)
(* a "100644" entry with hash I[p] under the "40000" entries of its        *)
(* directories, and no other file path appears.                            *)
(***************************************************************************)
C9_CommitTreeIsIndex ==
    [][Committed(last') =>
          TreeBlobs(objects', TreeOfCommit(objects', heads'[HEAD']), <<>>)
              = {<<p, index[p]>> : p \in DOMAIN index}]_vars

(***************************************************************************)
(* C10: store_object is idempotent and deduplicating: storing an object    *)
(* whose hash is present writes nothing, so the store holds one object per *)
(* distinct (kind, content); two files with the same bytes staged under    *)
(* different paths are one blob, both index entries holding its hash.      *)
(***************************************************************************)
C10_StoreDeduplicates ==
    /\ writes = Cardinality(DOMAIN objects)
    /\ \A h1, h2 \in DOMAIN objects :
           (/\ deserialize(objects[h1]).type = deserialize(objects[h2]).type
            /\ deserialize(objects[h1]).content = deserialize(objects[h2]).content)
               => h1 = h2
    /\ \A p, q \in DOMAIN index :
           /\ index[p] \in DOMAIN objects
           /\ load_object(objects, index[p]).content = load_object(objects, index[q]).content
                  => index[p] = index[q]

\* two paths staged with the same bytes, stored as one blob, after an object
\* that was already present was stored again
C10_Witness ==
    /\ last.op = "add"
    /\ \E p, q \in DOMAIN index : p # q /\ index[p] = index[q]
    /\ Cardinality({h \in DOMAIN objects : objects[h].header[1] = "blob"}) = 1
Perms(s) ==
    {[i \in 1..Len(s) |-> s[f[i]]] :
        f \in {g \in [1..Len(s) -> 1..Len(s)] : \A i, j \in 1..Len(s) : i # j => g[i] # g[j]}}

(***************************************************************************)
(* C11: a tree's encoded content and hash depend on its set of entries     *)
(* alone: every permutation of the entries given to Tree, and every order  *)
(* of the same path-to-hash items in the index given to the tree builder,  *)
(* gives the same content, the same hash and the same outcome.             *)
(***************************************************************************)
TreeIgnoresEntryOrder ==
    (output.done /\ input.kind = "entries") =>
        \A q \in Perms(input.v) : Tree(q) = output.v /\ hash(Tree(q)) = hash(output.v)

BuilderIgnoresItemOrder ==
    (output.done /\ input.kind = "index") =>
        \A q \in Perms(input.v) : create_tree_from_index(q) = output.v

C11_TreeHashIgnoresOrder == TreeIgnoresEntryOrder /\ BuilderIgnoresItemOrder

(***************************************************************************)
(* C12: building the tree from an empty index stores the empty Tree and    *)
(* returns its hash, the one fixed hash, and signals no error.             *)
(***************************************************************************)
C12_EmptyIndexTree ==
    (output.done /\ input.kind = "index" /\ input.v = <<>>) =>
        /\ ~output.v.raised
        /\ output.v.hash = hash(Tree(<<>>))
        /\ Tree(<<>>) \in output.v.stored

\* the first parent named in a stored commit, read from the stored lines
FirstParent(objs, h) ==
    LET body == objs[h].body
        ps == {i \in 1..Len(body) : body[i][1] = "parent"}
    IN  IF ps = {} THEN <<>>
        ELSE <<body[CHOOSE i \in ps : \A k \in ps : i <= k][2]>>

\* the number of commits on the first-parent chain from c (<<>> or <<h>>)
RECURSIVE ChainLength(_, _)
ChainLength(objs, c) ==
    IF c = <<>> THEN 0 ELSE 1 + ChainLength(objs, FirstParent(objs, c[1]))

Min(a, b) == Least(a, b)
Emitted == output.v.l.printed

(***************************************************************************)
(* C13: log(limit) emits the current branch's commit first, then each      *)
(* time the first parent of the commit emitted before it, and no other     *)
(* commit; it emits no commit twice; when it has returned it has emitted   *)
(* min(limit, length of the first-parent chain) commits; and it returns.   *)
(***************************************************************************)
LogEmitsFirstParents ==
    /\ Emitted # <<>> => <<Emitted[1]>> = get_branch_commit(heads, HEAD)
    /\ \A i \in 1..(Len(Emitted) - 1) :
           FirstParent(objects, Emitted[i]) = <<Emitted[i + 1]>>
    /\ \A i, k \in 1..Len(Emitted) : i # k => Emitted[i] # Emitted[k]
    /\ output.done =>
           Len(Emitted) = Min(input.v, ChainLength(objects, get_branch_commit(heads, HEAD)))

C14_CreateBranch ==
    [][(last'.op = "branch" /\ ~last'.flag) =>
          IF HEAD \notin DOMAIN heads
              THEN last'.result = "NoCommitsYet" /\ heads' = heads
              ELSE /\ last'.result = "created"
                   /\ last'.arg \in DOMAIN heads'
                   /\ heads'[last'.arg] = heads[HEAD]
                   /\ HEAD' = HEAD
                   /\ heads'[HEAD] = heads[HEAD]
                   /\ index' = index]_vars

(***************************************************************************)
(* C15: deleting a branch that has no ref reports BranchNotFound and       *)
(* changes nothing; deleting a branch that has one removes that ref and    *)
(* leaves every other ref, HEAD, the index and the objects as they were,   *)
(* also when it is the branch HEAD names.                                  *)
(***************************************************************************)
C15_DeleteBranch ==
    [][(last'.op = "branch" /\ last'.flag) =>
          IF last'.arg \notin DOMAIN heads
              THEN /\ last'.result = "BranchNotFound"
                   /\ UNCHANGED <<git_dir, HEAD, heads, index, objects, writes, files, dirs>>
              ELSE /\ last'.result = "deleted"
                   /\ DOMAIN heads' = DOMAIN heads \ {last'.arg}
                   /\ \A b \in DOMAIN heads' : heads'[b] = heads[b]
                   /\ UNCHANGED <<git_dir, HEAD, index, objects, writes, files, dirs>>]_vars

\* the checked-out branch was deleted while another branch has a ref: HEAD
\* names a branch without a commit
C15_Witness ==
    /\ last.op = "branch" /\ last.flag /\ last.result = "deleted"
    /\ last.arg = HEAD
    /\ HEAD \notin DOMAIN heads
    /\ heads # EmptyMap

(***************************************************************************)
(* C16: after a successful checkout of B, HEAD names B and the index is    *)
(* empty; when B had no ref and the create flag made it, B's ref is the    *)
(* commit the previous branch pointed at, and no other ref has changed.    *)
(***************************************************************************)
C16_CheckoutSetsHeadAndIndex ==
    [][CheckedOut(last') =>
          /\ HEAD' = last'.arg
          /\ index' = EmptyMap
          /\ last'.arg \notin DOMAIN heads =>
                /\ last'.flag
                /\ HEAD \in DOMAIN heads
                /\ last'.arg \in DOMAIN heads'
                /\ heads'[last'.arg] = heads[HEAD]
                /\ \A b \in Branches \ {last'.arg} :
                       /\ b \in DOMAIN heads <=> b \in DOMAIN heads'
                       /\ b \in DOMAIN heads => heads'[b] = heads[b]]_vars

\* checkout -b f has succeeded from master, whose commit f now shares
C16_Witness ==
    /\ CheckedOut(last) /\ last.flag /\ last.arg = "f"
    /\ HEAD = "f" /\ index = EmptyMap
    /\ "master" \in DOMAIN heads /\ "f" \in DOMAIN heads
    /\ heads["f"] = heads["master"]

(***************************************************************************)
(* C17: every blob hash held as a value in the index is the hash of a blob *)
(* object present in the store.                                            *)
(***************************************************************************)
C17_IndexedBlobsStored ==
    \A p \in DOMAIN index :
        /\ index[p] \in DOMAIN objects
        /\ load_object(objects, index[p]).type = "blob"
        /\ hash(load_object(objects, index[p])) = index[p]

\* two paths are staged, with different blobs, after add_directory
C17_Witness ==
    /\ last.op = "add"
    /\ \E p, q \in DOMAIN index : index[p] # index[q]

(***************************************************************************)
(* C18: for every byte content c, with NUL bytes or empty, reading back    *)
(* the serialized Blob(c) gives an object of kind blob with content c, so  *)
(* the hash of what is read is the hash of what was written.               *)
(***************************************************************************)
C18_BlobRoundTrip ==
    (output.done /\ input.kind = "blob") =>
        /\ output.v.error = "none"
        /\ output.v.type = blob_str
        /\ output.v.content = input.v
        /\ hash_bytes(GitObject(output.v.type, output.v.content))
               = hash_bytes(GitObject(blob_str, input.v))

\* a content with a NUL byte that is not its last byte has been read back
C18_Witness ==
    /\ output.done /\ input.kind = "blob"
    /\ Len(input.v) = 3 /\ input.v[1] = NUL /\ input.v[3] # NUL
    /\ output.v.content = input.v

(***************************************************************************)
(* C19: deserialize fails for every decompressed byte sequence that holds  *)
(* no NUL byte; it never returns an object for such an input.              *)
(***************************************************************************)
C19_NoNulIsCorrupt ==
    (output.done /\ input.kind = "bytes" /\ find(input.v, NUL) = MinusOne) =>
        output.v.error # "none"

(***************************************************************************)
(* C20: HEAD is written only by init, which makes it master, and by a      *)
(* successful checkout, which makes it the branch checked out: add,        *)
(* commit, branch creation, deletion and listing, log and every failed     *)
(* checkout leave HEAD as it was.                                          *)
(***************************************************************************)
C20_HeadWrittenByInitAndCheckout ==
    [][HEAD' # HEAD =>
          \/ last'.op = "init" /\ last'.result = "ok" /\ HEAD' = "master"
          \/ CheckedOut(last') /\ HEAD' = last'.arg]_vars

(***************************************************************************)
(* C21: two add operations for different paths, run at once, can lose an   *)
(* update.  When both have completed, the index holds the entry of the     *)
(* process that saved last; it lacks the entry of the other exactly when   *)
(* the last saver had loaded the index before the other saved.             *)
(***************************************************************************)
C21_ConcurrentAddLosesUpdate ==
    output.done =>
        LET later == output.v.saved[2]
            earlier == output.v.saved[1]
        IN  /\ input.v[later] \in DOMAIN index
            /\ index[input.v[later]] = hash(Blob(files[input.v[later]]))
            /\ input.v[earlier] \notin DOMAIN index
                   <=> input.v[earlier] \notin DOMAIN output.v.index[later]

\* both adds have completed and the index holds one entry: the other is lost
C21_Witness ==
    /\ output.done
    /\ \E p \in Procs : input.v[p] \notin DOMAIN index
    /\ \E p \in Procs : input.v[p] \in DOMAIN index

(***************************************************************************)
(* C22: over every step of add, commit, checkout, branch and log, an       *)
(* object stored under a hash stays in the store with the bytes it had,    *)
(* and every stored object hashes to the key it is stored under.           *)
(***************************************************************************)
C22_StoreAppendOnly ==
    [][/\ \A h \in DOMAIN objects : h \in DOMAIN objects' /\ objects'[h] = objects[h]
       /\ \A h \in DOMAIN objects' : hash(load_object(objects', h)) = h]_vars

\* a commit has found its tree in the store, which holds blobs, trees and a
\* commit, and has stored nothing
C22_Witness ==
    /\ last.op = "commit" /\ last.result = "clean"
    /\ CommitObjects(objects) # {}
    /\ Cardinality(DOMAIN objects) >= 3

TreeObjects(objs) == {h \in DOMAIN objs : objs[h].header[1] = "tree"}
IsStored(objs, h, kind) == h \in DOMAIN objs /\ load_object(objs, h).type = kind

\* the commits reached from the commits of S over at most n parent links
RECURSIVE Reach(_, _, _)
Reach(objs, S, n) ==
    IF n = 0 THEN S
    ELSE Reach(objs,
               S \cup UNION {{commit_data(objs, c).parent_hash[i] :
                                 i \in 1..Len(commit_data(objs, c).parent_hash)} : c \in S},
               n - 1)
Ancestors(objs, c) ==
    Reach(objs, {commit_data(objs, c).parent_hash[i] :
                    i \in 1..Len(commit_data(objs, c).parent_hash)},
          Cardinality(CommitObjects(objs)))

(***************************************************************************)
(* C23: in every reachable state the stored graph is closed and acyclic:   *)
(* every branch ref holds the hash of a stored commit, the tree and the    *)
(* parents of every stored commit are stored, every entry of a stored tree *)
(* names a stored object, and no commit is its own ancestor.               *)
(***************************************************************************)
C23_GraphClosedAcyclic ==
    /\ \A b \in DOMAIN heads : IsStored(objects, heads[b], "commit")
    /\ \A c \in CommitObjects(objects) :
           /\ IsStored(objects, commit_data(objects, c).tree_hash, "tree")
           /\ \A i \in 1..Len(commit_data(objects, c).parent_hash) :
                  IsStored(objects, commit_data(objects, c).parent_hash[i], "commit")
    /\ \A t \in TreeObjects(objects) :
           \A i \in 1..Len(tree_entries(objects, t)) :
               IsStored(objects, tree_entries(objects, t)[i].obj_hash,
                        IF tree_entries(objects, t)[i].mode = "40000" THEN "tree" ELSE "blob")
    /\ \A c \in CommitObjects(objects) : c \notin Ancestors(objects, c)

\* two branches have refs, a commit has a parent, and a tree holds a subtree
C23_Witness ==
    /\ DOMAIN heads = Branches
    /\ \E c \in CommitObjects(objects) : commit_data(objects, c).parent_hash # <<>>
    /\ \E t \in TreeObjects(objects) :
           \E i \in 1..Len(tree_entries(objects, t)) :
               tree_entries(objects, t)[i].mode = "40000"

====
